---- MODULE Spec2Model ----
(***************************************************************************)
(* Task Report Emitter (tools/scripts/workflows/ci/emit-report.py).        *)
(*                                                                         *)
(* Text is modelled as a sequence of one-character strings, so that        *)
(* integer coercion, JSON string escaping, key sorting and the file's      *)
(* bytes are computed character by character.  A process is one run of     *)
(* main(); the file system is shared by the processes.                     *)
(***************************************************************************)
EXTENDS Integers, Sequences, FiniteSets, TLC

\* ------------------------------------------------------------------ bounds
\* At most this many of the eleven optional variables are set in one environment.
MaxSetVars == 2
\* The largest number of characters one write system call transfers (the
\* text layer's buffer, scaled down).
MaxChunk == 100

\* -------------------------------------------------------------- characters
NL == "\n"
QUOTE == "\""
BACKSLASH == "\\"
NUL == "NUL"

Digits == <<"0", "1", "2", "3", "4", "5", "6", "7", "8", "9">>
Lower == <<"a", "b", "c", "d", "e", "f", "g", "h", "i", "j", "k", "l", "m",
           "n", "o", "p", "q", "r", "s", "t", "u", "v", "w", "x", "y", "z">>

IndexOf(seq, c) == CHOOSE i \in 1..Len(seq) : seq[i] = c
IsIn(seq, c) == \E i \in 1..Len(seq) : seq[i] = c

IsDigit(c) == IsIn(Digits, c)
DigitVal(c) == IndexOf(Digits, c) - 1
IsSpace(c) == c \in {" ", NL, "\t", "\r", "\f"}

\* Code point of the characters that occur in the payload's keys.
CharCode(c) == IF c = "_" THEN 95 ELSE 96 + IndexOf(Lower, c)

\* Python's str ordering: by code point, a proper prefix first.
RECURSIVE StrLess(_, _)
StrLess(a, b) ==
    IF b = <<>> THEN FALSE
    ELSE IF a = <<>> THEN TRUE
    ELSE IF Head(a) = Head(b) THEN StrLess(Tail(a), Tail(b))
    ELSE CharCode(Head(a)) < CharCode(Head(b))

\* ------------------------------------------------------------ int(text)
RECURSIVE LStrip(_)
LStrip(s) == IF s # <<>> /\ IsSpace(Head(s)) THEN LStrip(Tail(s)) ELSE s

RECURSIVE RStrip(_)
RStrip(s) ==
    IF s # <<>> /\ IsSpace(s[Len(s)]) THEN RStrip(SubSeq(s, 1, Len(s) - 1)) ELSE s

Strip(s) == RStrip(LStrip(s))

\* Digits with single underscores allowed between two digits.
IsDigitRun(s) ==
    /\ s # <<>>
    /\ \A i \in 1..Len(s) : IsDigit(s[i]) \/ s[i] = "_"
    /\ IsDigit(s[1]) /\ IsDigit(s[Len(s)])
    /\ \A i \in 1..(Len(s) - 1) : ~(s[i] = "_" /\ s[i + 1] = "_")

RECURSIVE DigitRunVal(_, _)
DigitRunVal(s, acc) ==
    IF s = <<>> THEN acc
    ELSE IF Head(s) = "_" THEN DigitRunVal(Tail(s), acc)
    ELSE DigitRunVal(Tail(s), 10 * acc + DigitVal(Head(s)))

ParseError == [ok |-> FALSE, val |-> 0]

\* int(text) in base 10: surrounding whitespace is dropped, one sign is allowed.
ParseInt(text) ==
    LET s == Strip(text)
        signed == s # <<>> /\ Head(s) \in {"+", "-"}
        body == IF signed THEN Tail(s) ELSE s
    IN  IF ~IsDigitRun(body) THEN ParseError
        ELSE [ok |-> TRUE,
              val |-> IF signed /\ Head(s) = "-" THEN 0 - DigitRunVal(body, 0)
                      ELSE DigitRunVal(body, 0)]

\* ------------------------------------------------------- JSON serialization
RECURSIVE NatToStr(_)
NatToStr(n) ==
    IF n < 10 THEN <<Digits[n + 1]>>
    ELSE NatToStr(n \div 10) \o <<Digits[(n % 10) + 1]>>

IntToStr(n) == IF n < 0 THEN <<"-">> \o NatToStr(0 - n) ELSE NatToStr(n)

\* The escapes of the JSON string encoder for the characters modelled.
EscapeChar(c) ==
    CASE c = QUOTE -> <<BACKSLASH, QUOTE>>
      [] c = BACKSLASH -> <<BACKSLASH, BACKSLASH>>
      [] c = NL -> <<BACKSLASH, "n">>
      [] c = "\t" -> <<BACKSLASH, "t">>
      [] c = "\r" -> <<BACKSLASH, "r">>
      [] c = "\f" -> <<BACKSLASH, "f">>
      [] OTHER -> <<c>>

RECURSIVE EscapeStr(_)
EscapeStr(s) == IF s = <<>> THEN <<>> ELSE EscapeChar(Head(s)) \o EscapeStr(Tail(s))

EncodeStr(s) == <<QUOTE>> \o EscapeStr(s) \o <<QUOTE>>

StrV(s) == [type |-> "str", val |-> s]
IntV(n) == [type |-> "int", val |-> n]

EncodeValue(v) == IF v.type = "int" THEN IntToStr(v.val) ELSE EncodeStr(v.val)

\* sort_keys=True: the items ordered by key; items with equal keys keep their
\* order.  An item's place is one more than the number of items before it.
Precedes(items, i, j) ==
    \/ StrLess(items[i].key, items[j].key)
    \/ (items[i].key = items[j].key /\ i < j)

Rank(items, j) == 1 + Cardinality({i \in 1..Len(items) : Precedes(items, i, j)})

SortItems(items) ==
    [k \in 1..Len(items) |-> items[CHOOSE j \in 1..Len(items) : Rank(items, j) = k]]

Indent == <<" ", " ">>

EncodeItem(item) == Indent \o EncodeStr(item.key) \o <<":", " ">> \o EncodeValue(item.val)

RECURSIVE JoinItems(_)
JoinItems(items) ==
    IF Len(items) = 1 THEN EncodeItem(items[1])
    ELSE EncodeItem(Head(items)) \o <<",", NL>> \o JoinItems(Tail(items))

\* Variant: sort_keys left out, the items stay in insertion order.
JsonDump_Unsorted(payload) ==
    IF payload = <<>> THEN <<"{", "}">>
    ELSE <<"{", NL>> \o JoinItems(payload) \o <<NL, "}">>

\* json.dump(payload, handle, indent=2, sort_keys=True).  The sorted items are
\* bound once, as the one element of a set.
JsonDump(payload) ==
    IF payload = <<>> THEN <<"{", "}">>
    ELSE CHOOSE text \in {<<"{", NL>> \o JoinItems(sorted) \o <<NL, "}">> :
                            sorted \in {SortItems(payload)}} : TRUE

\* ------------------------------------------------------------ environment
\* A variable of the environment is either not set or set to a text.
Unset == [set |-> FALSE, val |-> <<>>]
SetTo(text) == [set |-> TRUE, val |-> text]

\* The keys of the payload, as text.
K_schema_version == <<"s", "c", "h", "e", "m", "a", "_", "v", "e", "r", "s", "i", "o", "n">>
K_id == <<"i", "d">>
K_title == <<"t", "i", "t", "l", "e">>
K_description == <<"d", "e", "s", "c", "r", "i", "p", "t", "i", "o", "n">>
K_status == <<"s", "t", "a", "t", "u", "s">>
K_exit_code == <<"e", "x", "i", "t", "_", "c", "o", "d", "e">>
K_duration_ms == <<"d", "u", "r", "a", "t", "i", "o", "n", "_", "m", "s">>
K_log_path == <<"l", "o", "g", "_", "p", "a", "t", "h">>
K_report_path == <<"r", "e", "p", "o", "r", "t", "_", "p", "a", "t", "h">>
K_script == <<"s", "c", "r", "i", "p", "t">>
K_working_directory == <<"w", "o", "r", "k", "i", "n", "g", "_", "d", "i", "r", "e", "c", "t", "o", "r", "y">>

\* Variant: the schema version of the previous release as the default.
SchemaDefault_Previous == <<"1", ".", "0", ".", "0">>
SchemaDefault == <<"1", ".", "1", ".", "0">>
IntDefault == <<"0">>

\* The payload literal, in the order the code writes it: key, variable, default, coercion.
Fields == <<
    [key |-> K_schema_version, var |-> "PS_REPORT_SCHEMA_VERSION", default |-> SchemaDefault, int |-> FALSE],
    [key |-> K_id, var |-> "TASK_ID", default |-> <<>>, int |-> FALSE],
    [key |-> K_title, var |-> "TASK_TITLE", default |-> <<>>, int |-> FALSE],
    [key |-> K_description, var |-> "TASK_DESC", default |-> <<>>, int |-> FALSE],
    [key |-> K_status, var |-> "TASK_STATUS", default |-> <<>>, int |-> FALSE],
    [key |-> K_exit_code, var |-> "TASK_EXIT_CODE", default |-> IntDefault, int |-> TRUE],
    [key |-> K_duration_ms, var |-> "TASK_DURATION_MS", default |-> IntDefault, int |-> TRUE],
    [key |-> K_log_path, var |-> "TASK_LOG_PATH", default |-> <<>>, int |-> FALSE],
    [key |-> K_report_path, var |-> "TASK_REPORT_PATH", default |-> <<>>, int |-> FALSE],
    [key |-> K_script, var |-> "TASK_SCRIPT", default |-> <<>>, int |-> FALSE],
    [key |-> K_working_directory, var |-> "TASK_WORKDIR", default |-> <<>>, int |-> FALSE]
>>

OptionalVars == {Fields[i].var : i \in 1..Len(Fields)}
AllVars == OptionalVars \cup {"REPORT_PATH"}


\* os.environ.get(name, default)
EnvGet(e, name, default) == IF e[name].set THEN e[name].val ELSE default

\* The destination the environments name, and the texts the variables take.
P_r == <<"/", "r">>
Paths == {P_r}
StrVals == {<<>>, <<"a", QUOTE, BACKSLASH, NL>>}
NumVals == {<<>>, <<"7">>, <<"-", "1", "5">>, <<" ", "+", "0", "7", NL>>,
            <<"1", "_", "5", "0", "0">>, <<"7", "a">>, <<"1", "_", "_", "5">>}

IsNumericVar(name) == name \in {"TASK_EXIT_CODE", "TASK_DURATION_MS"}

ValuesOf(name) ==
    IF IsNumericVar(name) THEN NumVals
    ELSE IF name = "TASK_REPORT_PATH" THEN StrVals \cup Paths
    ELSE StrVals

DestinationVals == {Unset, SetTo(<<>>)} \cup {SetTo(path) : path \in Paths}

\* The environments with at most MaxSetVars optional variables set.
EnvsSetting(S) ==
    {[name \in AllVars |->
        IF name = "REPORT_PATH" THEN dest
        ELSE IF name \in S THEN SetTo(f[name]) ELSE Unset] :
     f \in {g \in [S -> StrVals \cup NumVals \cup Paths] :
                \A name \in S : g[name] \in ValuesOf(name)},
     dest \in DestinationVals}

Envs == UNION {EnvsSetting(S) : S \in {T \in SUBSET OptionalVars : Cardinality(T) <= MaxSetVars}}

\* The environments of the concurrent runs: the destination is set and only
\* the task's id and exit code vary.
ConcEnvs ==
    {e \in UNION {EnvsSetting(S) : S \in SUBSET {"TASK_ID", "TASK_EXIT_CODE"}} :
        /\ e["REPORT_PATH"].set /\ e["REPORT_PATH"].val \in Paths
        /\ e["TASK_EXIT_CODE"] \in {Unset, SetTo(<<"7">>), SetTo(<<"7", "a">>)}}

\* ------------------------------------------------------------- file system
NoFile == [exists |-> FALSE, data |-> <<>>]
File(data) == [exists |-> TRUE, data |-> data]
\* A file left at the destination by something else, longer than any report.
OldLen == 300
OldData == [i \in 1..OldLen |-> "x"]

Nuls(n) == [i \in 1..n |-> NUL]

\* write(2) of data at offset off: a hole below the offset reads as NUL bytes.
WriteAt(old, off, data) ==
    LET base == IF Len(old) < off THEN old \o Nuls(off - Len(old)) ELSE old
    IN  SubSeq(base, 1, off) \o data \o SubSeq(base, off + Len(data) + 1, Len(base))

\* ------------------------------------------------------------------- state
Procs == {1, 2}

VARIABLES
    env,          \* env[p]: the environment of process p
    concurrent,   \* whether the pipeline starts the processes side by side
    fs,           \* fs[path]: the file at path
    writable,     \* the paths that can be opened for writing
    pc,           \* pc[p]: where process p is in main()
    report_path,  \* the local report_path of main()
    payload,      \* the local payload of main()
    buf,          \* the text handed to the handle and not yet written
    off,          \* the file offset of the handle
    status,       \* the exit status, NoStatus while running
    message,      \* what the process printed when it was terminated
    reads,        \* the variables read so far, in order
    fs0           \* the file system when the process was started

vars == <<env, concurrent, fs, writable, pc, report_path, payload, buf, off,
          status, message, reads, fs0>>

NoStatus == 0 - 1
ExitOk == 0
ExitError == 1

MsgNone == "none"
MsgNotSet == "REPORT_PATH not set"
MsgValueError == "ValueError"
MsgOSError == "OSError"

InitRest ==
    /\ fs \in [Paths -> {NoFile, File(OldData)}]
    /\ writable \in SUBSET Paths
    /\ pc = [p \in Procs |-> "idle"]
    /\ report_path = [p \in Procs |-> Unset]
    /\ payload = [p \in Procs |-> <<>>]
    /\ buf = [p \in Procs |-> <<>>]
    /\ off = [p \in Procs |-> 0]
    /\ status = [p \in Procs |-> NoStatus]
    /\ message = [p \in Procs |-> MsgNone]
    /\ reads = [p \in Procs |-> <<>>]
    /\ fs0 = [p \in Procs |-> fs]

\* The emitter is run, and then run again with the same environment.
Init ==
    /\ concurrent = FALSE
    /\ \E e \in Envs : env = [p \in Procs |-> e]
    /\ InitRest

\* The environments of the runs followed to their end: the destination, the
\* task's id and its exit code vary.
FairEnvs == UNION {EnvsSetting(S) : S \in SUBSET {"TASK_ID", "TASK_EXIT_CODE"}}

InitFair ==
    /\ concurrent = FALSE
    /\ \E e \in FairEnvs : env = [p \in Procs |-> e]
    /\ InitRest

\* Two emitters are run side by side, each with its own environment.
InitConc ==
    /\ concurrent = TRUE
    /\ env \in [Procs -> ConcEnvs]
    /\ InitRest

Exit(p, code, msg) ==
    /\ pc' = [pc EXCEPT ![p] = "exited"]
    /\ status' = [status EXCEPT ![p] = code]
    /\ message' = [message EXCEPT ![p] = msg]

\* The process is started: main() is called.
Invoke(p) ==
    /\ pc[p] = "idle"
    /\ concurrent \/ \A q \in Procs : IF q < p THEN pc[q] = "exited" ELSE pc[q] = "idle"
    /\ pc' = [pc EXCEPT ![p] = "start"]
    /\ fs0' = [fs0 EXCEPT ![p] = fs]
    /\ UNCHANGED <<env, concurrent, fs, writable, report_path, payload, buf, off,
                   status, message, reads>>

\* Variant: a destination that is not set falls back to a default path.
ReadReportPath_Default(p) ==
    /\ pc[p] = "start"
    /\ reads' = [reads EXCEPT ![p] = Append(@, "REPORT_PATH")]
    /\ report_path' = [report_path EXCEPT ![p] =
                          IF env[p]["REPORT_PATH"].set THEN env[p]["REPORT_PATH"] ELSE SetTo(P_r)]
    /\ IF env[p]["REPORT_PATH"].set /\ env[p]["REPORT_PATH"].val = <<>>
       THEN Exit(p, ExitError, MsgNotSet)
       ELSE /\ pc' = [pc EXCEPT ![p] = "build"]
            /\ UNCHANGED <<status, message>>
    /\ UNCHANGED <<env, concurrent, fs, writable, payload, buf, off, fs0>>

\* Variant: only a destination that is not set is refused ("is None").
ReadReportPath_NoneOnly(p) ==
    /\ pc[p] = "start"
    /\ reads' = [reads EXCEPT ![p] = Append(@, "REPORT_PATH")]
    /\ report_path' = [report_path EXCEPT ![p] = env[p]["REPORT_PATH"]]
    /\ IF ~env[p]["REPORT_PATH"].set
       THEN Exit(p, ExitError, MsgNotSet)
       ELSE /\ pc' = [pc EXCEPT ![p] = "build"]
            /\ UNCHANGED <<status, message>>
    /\ UNCHANGED <<env, concurrent, fs, writable, payload, buf, off, fs0>>

\* report_path = os.environ.get("REPORT_PATH"); if not report_path: raise SystemExit(...)
ReadReportPath(p) ==
    /\ pc[p] = "start"
    /\ reads' = [reads EXCEPT ![p] = Append(@, "REPORT_PATH")]
    /\ report_path' = [report_path EXCEPT ![p] = env[p]["REPORT_PATH"]]
    /\ IF ~env[p]["REPORT_PATH"].set \/ env[p]["REPORT_PATH"].val = <<>>
       THEN Exit(p, ExitError, MsgNotSet)
       ELSE /\ pc' = [pc EXCEPT ![p] = "build"]
            /\ UNCHANGED <<status, message>>
    /\ UNCHANGED <<env, concurrent, fs, writable, payload, buf, off, fs0>>

\* Variant: the report_path field is taken from the destination.
FieldText_Destination(e, f) ==
    IF f.var = "TASK_REPORT_PATH" THEN e["REPORT_PATH"].val ELSE EnvGet(e, f.var, f.default)

\* The text a field is built from.
FieldText(e, f) == EnvGet(e, f.var, f.default)

CoercionFails(e, f) == f.int /\ ~ParseInt(FieldText(e, f)).ok

FieldValue(e, f) ==
    IF f.int THEN IntV(ParseInt(FieldText(e, f)).val) ELSE StrV(FieldText(e, f))

\* The fields whose coercion raises, and the first of them in evaluation order.
Failing(e) == {i \in 1..Len(Fields) : CoercionFails(e, Fields[i])}
FirstFailing(e) == CHOOSE i \in Failing(e) : \A j \in Failing(e) : i <= j

BuildItems(e) == [i \in 1..Len(Fields) |-> [key |-> Fields[i].key, val |-> FieldValue(e, Fields[i])]]

\* Variant: a failed int() is replaced by 0 and the run goes on.
BuildPayload_Lenient(p) ==
    /\ pc[p] = "build"
    /\ reads' = [reads EXCEPT ![p] = @ \o [i \in 1..Len(Fields) |-> Fields[i].var]]
    /\ payload' = [payload EXCEPT ![p] = BuildItems(env[p])]
    /\ pc' = [pc EXCEPT ![p] = "open"]
    /\ UNCHANGED <<status, message>>
    /\ UNCHANGED <<env, concurrent, fs, writable, report_path, buf, off, fs0>>

\* payload = {...}: the variables are read in order; a failed int() ends the process.
BuildPayload(p) ==
    /\ pc[p] = "build"
    /\ IF Failing(env[p]) # {}
       THEN /\ reads' = [reads EXCEPT ![p] =
                            @ \o [i \in 1..FirstFailing(env[p]) |-> Fields[i].var]]
            /\ Exit(p, ExitError, MsgValueError)
            /\ UNCHANGED payload
       ELSE /\ reads' = [reads EXCEPT ![p] = @ \o [i \in 1..Len(Fields) |-> Fields[i].var]]
            /\ payload' = [payload EXCEPT ![p] = BuildItems(env[p])]
            /\ pc' = [pc EXCEPT ![p] = "open"]
            /\ UNCHANGED <<status, message>>
    /\ UNCHANGED <<env, concurrent, fs, writable, report_path, buf, off, fs0>>

\* Variant: the file is opened for appending ("a").
Open_Append(p) ==
    /\ pc[p] = "open"
    /\ IF report_path[p].val \in writable
       THEN /\ fs' = [fs EXCEPT ![report_path[p].val] = File(@.data)]
            /\ off' = [off EXCEPT ![p] = Len(fs[report_path[p].val].data)]
            /\ pc' = [pc EXCEPT ![p] = "dump"]
            /\ UNCHANGED <<status, message>>
       ELSE /\ Exit(p, ExitError, MsgOSError)
            /\ UNCHANGED <<fs, off>>
    /\ UNCHANGED <<env, concurrent, writable, report_path, payload, buf, reads, fs0>>

\* open(report_path, "w"): the file is created or truncated, or the open fails.
Open(p) ==
    /\ pc[p] = "open"
    /\ IF report_path[p].val \in writable
       THEN /\ fs' = [fs EXCEPT ![report_path[p].val] = File(<<>>)]
            /\ off' = [off EXCEPT ![p] = 0]
            /\ pc' = [pc EXCEPT ![p] = "dump"]
            /\ UNCHANGED <<status, message>>
       ELSE /\ Exit(p, ExitError, MsgOSError)
            /\ UNCHANGED <<fs, off>>
    /\ UNCHANGED <<env, concurrent, writable, report_path, payload, buf, reads, fs0>>

\* json.dump(payload, handle, indent=2, sort_keys=True); handle.write("\n")
Dump(p) ==
    /\ pc[p] = "dump"
    /\ buf' = [buf EXCEPT ![p] = JsonDump(payload[p]) \o <<NL>>]
    /\ pc' = [pc EXCEPT ![p] = "flush"]
    /\ UNCHANGED <<env, concurrent, fs, writable, report_path, payload, off,
                   status, message, reads, fs0>>

\* Variant: a failed write is swallowed and main() returns normally.
Flush_Swallow(p) ==
    /\ pc[p] = "flush"
    /\ buf[p] # <<>>
    /\ LET path == report_path[p].val
           n == IF Len(buf[p]) < MaxChunk THEN Len(buf[p]) ELSE MaxChunk
       IN  \/ /\ fs' = [fs EXCEPT ![path] = File(WriteAt(fs[path].data, off[p], SubSeq(buf[p], 1, n)))]
              /\ off' = [off EXCEPT ![p] = @ + n]
              /\ buf' = [buf EXCEPT ![p] = SubSeq(@, n + 1, Len(@))]
              /\ UNCHANGED <<pc, status, message>>
           \/ /\ Exit(p, ExitOk, MsgNone)
              /\ UNCHANGED <<fs, off, buf>>
    /\ UNCHANGED <<env, concurrent, writable, report_path, payload, reads, fs0>>

\* The handle writes the next part of its buffer at its offset, or the write fails.
Flush(p) ==
    /\ pc[p] = "flush"
    /\ buf[p] # <<>>
    /\ LET path == report_path[p].val
           n == IF Len(buf[p]) < MaxChunk THEN Len(buf[p]) ELSE MaxChunk
       IN  \/ /\ fs' = [fs EXCEPT ![path] = File(WriteAt(fs[path].data, off[p], SubSeq(buf[p], 1, n)))]
              /\ off' = [off EXCEPT ![p] = @ + n]
              /\ buf' = [buf EXCEPT ![p] = SubSeq(@, n + 1, Len(@))]
              /\ UNCHANGED <<pc, status, message>>
           \/ /\ Exit(p, ExitError, MsgOSError)
              /\ UNCHANGED <<fs, off, buf>>
    /\ UNCHANGED <<env, concurrent, writable, report_path, payload, reads, fs0>>

\* The with block ends with everything written: the handle is closed, main() returns.
Close(p) ==
    /\ pc[p] = "flush"
    /\ buf[p] = <<>>
    /\ Exit(p, ExitOk, MsgNone)
    /\ UNCHANGED <<env, concurrent, fs, writable, report_path, payload, buf, off,
                   reads, fs0>>

Step(p) ==
    \/ Invoke(p)
    \/ ReadReportPath(p)
    \/ BuildPayload(p)
    \/ Open(p)
    \/ Dump(p)
    \/ Flush(p)
    \/ Close(p)

Next == \E p \in Procs : Step(p)

Spec == Init /\ [][Next]_vars

ConcSpec == InitConc /\ [][Next]_vars

\* Every started process is scheduled until it exits.
FairSpec == InitFair /\ [][Next]_vars /\ \A p \in Procs : WF_vars(Step(p))


\* ------------------------------------------------------- reading a report
\* A JSON reader, written independently of the serializer above: it is what a
\* consumer of the report does with the file's text.

\* The text split at its line feeds.
LineFeeds(text) == {i \in 1..Len(text) : text[i] = NL}

\* The position of the k-th of the line feeds; 0 for k = 0, past the end of
\* the text after the last.
LineFeedAt(feeds, len, k) ==
    IF k = 0 THEN 0
    ELSE IF k > Cardinality(feeds) THEN len + 1
    ELSE CHOOSE i \in feeds : Cardinality({j \in feeds : j <= i}) = k

SplitLines(text) ==
    CHOOSE lines \in
        {[k \in 1..(Cardinality(feeds) + 1) |->
            SubSeq(text, LineFeedAt(feeds, Len(text), k - 1) + 1,
                         LineFeedAt(feeds, Len(text), k) - 1)] :
         feeds \in {LineFeeds(text)}} : TRUE

Unescape(c) ==
    CASE c = "n" -> NL
      [] c = "t" -> "\t"
      [] c = "r" -> "\r"
      [] c = "f" -> "\f"
      [] OTHER -> c

IsEscapable(c) == c \in {QUOTE, BACKSLASH, "/", "n", "t", "r", "f"}

\* Reads a string literal's characters from position i (after the opening
\* quote) up to the closing quote: [ok, val, next], next the position after it.
RECURSIVE ScanStr(_, _, _)
ScanStr(s, i, acc) ==
    IF i > Len(s) THEN [ok |-> FALSE, val |-> acc, next |-> i]
    ELSE IF s[i] = QUOTE THEN [ok |-> TRUE, val |-> acc, next |-> i + 1]
    ELSE IF s[i] = BACKSLASH
         THEN IF i + 1 <= Len(s) /\ IsEscapable(s[i + 1])
              THEN ScanStr(s, i + 2, Append(acc, Unescape(s[i + 1])))
              ELSE [ok |-> FALSE, val |-> acc, next |-> i]
    ELSE IF s[i] \in {NUL, "\t", "\r", "\f"} THEN [ok |-> FALSE, val |-> acc, next |-> i]
    ELSE ScanStr(s, i + 1, Append(acc, s[i]))

\* A JSON integer: an optional minus sign, then digits without a leading zero.
IsJsonInt(s) ==
    LET body == IF s # <<>> /\ Head(s) = "-" THEN Tail(s) ELSE s
    IN  /\ body # <<>>
        /\ \A i \in 1..Len(body) : IsDigit(body[i])
        /\ Len(body) > 1 => body[1] # "0"

RECURSIVE DecimalVal(_, _)
DecimalVal(s, acc) ==
    IF s = <<>> THEN acc ELSE DecimalVal(Tail(s), 10 * acc + DigitVal(Head(s)))

JsonIntVal(s) == IF Head(s) = "-" THEN 0 - DecimalVal(Tail(s), 0) ELSE DecimalVal(s, 0)

BadMember == [ok |-> FALSE, key |-> <<>>, val |-> StrV(<<>>)]

\* One member line of the object: two spaces, "key": value, and a comma
\* unless it is the last member.
ReadMember(line, last) ==
    IF ~(Len(line) >= 3 /\ SubSeq(line, 1, 3) = <<" ", " ", QUOTE>>) THEN BadMember
    ELSE LET k == ScanStr(line, 4, <<>>)
         IN  IF ~(k.ok /\ k.next + 1 <= Len(line)
                       /\ SubSeq(line, k.next, k.next + 1) = <<":", " ">>)
             THEN BadMember
             ELSE LET rest == SubSeq(line, k.next + 2, Len(line))
                      body == IF last THEN rest ELSE SubSeq(rest, 1, Len(rest) - 1)
                      comma == last \/ (rest # <<>> /\ rest[Len(rest)] = ",")
                  IN  IF ~comma \/ body = <<>> THEN BadMember
                      ELSE IF Head(body) = QUOTE
                           THEN LET v == ScanStr(body, 2, <<>>)
                                IN  IF v.ok /\ v.next = Len(body) + 1
                                    THEN [ok |-> TRUE, key |-> k.val, val |-> StrV(v.val)]
                                    ELSE BadMember
                      ELSE IF IsJsonInt(body)
                           THEN [ok |-> TRUE, key |-> k.val, val |-> IntV(JsonIntVal(body))]
                      ELSE BadMember

\* The report read from a file's text: one object, one member per line,
\* closed by a line feed that ends the file.
ReadReport(text) ==
    LET lines == SplitLines(text)
        n == Len(lines)
    IN  IF ~(n >= 4 /\ lines[1] = <<"{">> /\ lines[n - 1] = <<"}">> /\ lines[n] = <<>>)
        THEN [ok |-> FALSE, items |-> <<>>]
        ELSE LET members == [i \in 1..(n - 3) |-> ReadMember(lines[i + 1], i = n - 3)]
             IN  IF \E i \in 1..(n - 3) : ~members[i].ok
                 THEN [ok |-> FALSE, items |-> <<>>]
                 ELSE [ok |-> TRUE,
                       items |-> [i \in 1..(n - 3) |->
                                    [key |-> members[i].key, val |-> members[i].val]]]

KeysOf(report) == {report.items[i].key : i \in 1..Len(report.items)}

HasKey(report, key) == \E i \in 1..Len(report.items) : report.items[i].key = key

ValueOf(report, key) ==
    report.items[CHOOSE i \in 1..Len(report.items) : report.items[i].key = key].val

KeysAscending(report) ==
    \A i \in 1..(Len(report.items) - 1) :
        StrLess(report.items[i].key, report.items[i + 1].key)


\* ------------------------------------------------------------- properties
Exited(p) == pc[p] = "exited"
Succeeded(p) == Exited(p) /\ status[p] = ExitOk
Failed(p) == Exited(p) /\ status[p] # ExitOk
Started(p) == pc[p] # "idle"

\* p is the last process that ran: what is at the destination is what p left.
LastRun(p) == Exited(p) /\ \A q \in Procs \ {p} : IF q < p THEN Exited(q) ELSE pc[q] = "idle"

DestOf(p) == env[p]["REPORT_PATH"].val
FileAt(p) == fs[DestOf(p)]

\* The complete report of p's environment: the serialized record and a line feed.
ReportText(p) == JsonDump(BuildItems(env[p])) \o <<NL>>

HasBadNumber(p) ==
    \E name \in {"TASK_EXIT_CODE", "TASK_DURATION_MS"} :
        env[p][name].set /\ ~ParseInt(env[p][name].val).ok

\* The eleven fields of the data model, and the table of the external interface.
DocumentedKeys == {K_schema_version, K_id, K_title, K_description, K_status,
                   K_exit_code, K_duration_ms, K_log_path, K_report_path,
                   K_script, K_working_directory}

DocumentedVar(key) ==
    CASE key = K_schema_version -> "PS_REPORT_SCHEMA_VERSION"
      [] key = K_id -> "TASK_ID"
      [] key = K_title -> "TASK_TITLE"
      [] key = K_description -> "TASK_DESC"
      [] key = K_status -> "TASK_STATUS"
      [] key = K_exit_code -> "TASK_EXIT_CODE"
      [] key = K_duration_ms -> "TASK_DURATION_MS"
      [] key = K_log_path -> "TASK_LOG_PATH"
      [] key = K_report_path -> "TASK_REPORT_PATH"
      [] key = K_script -> "TASK_SCRIPT"
      [] key = K_working_directory -> "TASK_WORKDIR"

DocumentedDefault(key) ==
    IF key = K_schema_version THEN StrV(<<"1", ".", "1", ".", "0">>)
    ELSE IF key \in {K_exit_code, K_duration_ms} THEN IntV(0)
    ELSE StrV(<<>>)

DocumentedValue(e, key) ==
    IF ~e[DocumentedVar(key)].set THEN DocumentedDefault(key)
    ELSE IF key \in {K_exit_code, K_duration_ms}
         THEN IntV(ParseInt(e[DocumentedVar(key)].val).val)
    ELSE StrV(e[DocumentedVar(key)].val)

\* C1: a process whose REPORT_PATH is not set never opens a file, exits with a
\* non-zero status, and leaves the file system as it was when it was started,
\* whatever the other variables are.
C1_UnsetDestinationTouchesNothing ==
    \A p \in Procs :
        ~env[p]["REPORT_PATH"].set =>
            /\ pc[p] \in {"idle", "start", "exited"}
            /\ Exited(p) => status[p] # ExitOk /\ status[p] # NoStatus
            /\ Started(p) => fs = fs0[p]

C1_Witness ==
    \E p \in Procs :
        /\ Exited(p) /\ ~env[p]["REPORT_PATH"].set
        /\ \E name \in OptionalVars : env[p][name].set
        /\ \E path \in Paths : fs[path].exists /\ path \in writable

\* C2: with REPORT_PATH set, a TASK_EXIT_CODE or TASK_DURATION_MS that int()
\* rejects ends the process with a non-zero status before the destination is
\* opened: the file system stays as it was when the process was started.
C2_BadNumberTouchesNothing ==
    \A p \in Procs :
        (env[p]["REPORT_PATH"].set /\ HasBadNumber(p)) =>
            /\ pc[p] \in {"idle", "start", "build", "exited"}
            /\ Exited(p) => status[p] # ExitOk /\ status[p] # NoStatus
            /\ Started(p) => fs = fs0[p]

C2_Witness ==
    \E p \in Procs :
        /\ Exited(p) /\ DestOf(p) \in writable /\ message[p] = MsgValueError
        /\ env[p]["TASK_DURATION_MS"].set /\ ~ParseInt(env[p]["TASK_DURATION_MS"].val).ok
        /\ FileAt(p).exists

\* C3 as stated: the emitted file is one JSON object with exactly twelve keys,
\* in ascending key order, followed by one trailing line feed.
C3_TwelveKeys ==
    \A p \in Procs :
        (LastRun(p) /\ Succeeded(p)) =>
            LET r == ReadReport(FileAt(p).data)
            IN  /\ r.ok
                /\ Len(r.items) = 12 /\ Cardinality(KeysOf(r)) = 12
                /\ KeysAscending(r)

\* C3 amended: the emitted file is one JSON object with exactly the eleven
\* keys of the data model (REPORT_PATH has no key), in ascending key order,
\* followed by one trailing line feed.
C3_ElevenKeysSorted ==
    \A p \in Procs :
        (LastRun(p) /\ Succeeded(p)) =>
            LET r == ReadReport(FileAt(p).data)
                text == FileAt(p).data
            IN  /\ r.ok
                /\ Len(r.items) = 11 /\ KeysOf(r) = DocumentedKeys
                /\ KeysAscending(r)
                /\ text[Len(text)] = NL /\ text[Len(text) - 1] # NL

C3_Witness ==
    \E p \in Procs :
        /\ LastRun(p) /\ Succeeded(p)
        /\ env[p]["TASK_EXIT_CODE"].set /\ env[p]["TASK_TITLE"].set
        /\ env[p]["TASK_TITLE"].val # <<>>

\* C4 as stated: the report_path field of an emitted report equals the
\* destination the file was written to.
C4_ReportPathIsDestination ==
    \A p \in Procs :
        (LastRun(p) /\ Succeeded(p)) =>
            LET r == ReadReport(FileAt(p).data)
            IN  r.ok /\ HasKey(r, K_report_path)
                     /\ ValueOf(r, K_report_path) = StrV(DestOf(p))

\* C4 amended: the report_path field of an emitted report equals the value of
\* TASK_REPORT_PATH, or the empty string when that variable is not set; it is
\* not taken from REPORT_PATH.
C4_ReportPathIsTaskReportPath ==
    \A p \in Procs :
        (LastRun(p) /\ Succeeded(p)) =>
            LET r == ReadReport(FileAt(p).data)
            IN  r.ok /\ HasKey(r, K_report_path)
                     /\ ValueOf(r, K_report_path) =
                            StrV(IF env[p]["TASK_REPORT_PATH"].set
                                 THEN env[p]["TASK_REPORT_PATH"].val ELSE <<>>)

C4_Witness ==
    \E p \in Procs :
        /\ LastRun(p) /\ Succeeded(p)
        /\ env[p]["TASK_REPORT_PATH"].set
        /\ env[p]["TASK_REPORT_PATH"].val \notin {<<>>, DestOf(p)}

\* C5: in an emitted report every documented field is present; the field of a
\* variable that is not set has the documented default ("1.1.0", the integer
\* 0, or the empty string), the field of a variable that is set has its value,
\* as an integer for exit_code and duration_ms.
C5_DefaultsAndValues ==
    \A p \in Procs :
        (LastRun(p) /\ Succeeded(p)) =>
            LET r == ReadReport(FileAt(p).data)
            IN  /\ r.ok
                /\ \A key \in DocumentedKeys :
                      HasKey(r, key) /\ ValueOf(r, key) = DocumentedValue(env[p], key)

C5_Witness ==
    \E p \in Procs :
        /\ LastRun(p) /\ Succeeded(p)
        /\ ~env[p]["PS_REPORT_SCHEMA_VERSION"].set
        /\ ~env[p]["TASK_EXIT_CODE"].set
        /\ env[p]["TASK_DURATION_MS"].set /\ env[p]["TASK_DURATION_MS"].val # <<"7">>
        /\ env[p]["TASK_ID"].set

\* C6: when two processes run side by side against the same destination and
\* both succeed, the file is the complete report of one of them.
C6_LastWriterWins ==
    (/\ \A p \in Procs : Succeeded(p)
     /\ DestOf(1) = DestOf(2))
        => \E p \in Procs : FileAt(1) = File(ReportText(p))

\* The handle of p has written the whole report and holds nothing back.
Written(p) ==
    /\ report_path[p].set /\ payload[p] # <<>>
    /\ buf[p] = <<>> /\ off[p] = Len(ReportText(p))

\* C7: every process exits; it exits with status 0 exactly when its complete
\* report has been written to the destination, and with a non-zero status
\* when the destination is missing, a coercion fails or the destination
\* cannot be written.
C7_ExitStatus ==
    /\ \A p \in Procs : <>Exited(p)
    /\ [](\A p \in Procs :
            Exited(p) =>
                /\ status[p] \in {ExitOk, ExitError}
                /\ status[p] = ExitOk <=> Written(p)
                /\ message[p] # MsgNone => status[p] # ExitOk
                /\ (LastRun(p) /\ status[p] = ExitOk) => FileAt(p) = File(ReportText(p)))

C7_Witness ==
    /\ Succeeded(1) /\ Failed(2) /\ message[2] = MsgOSError
    /\ DestOf(2) \in writable

\* C8: the emitter run twice in sequence with the same environment, both runs
\* succeeding, leaves the file after the second run equal to the file after
\* the first, and that file is the report of the environment whatever was at
\* the destination before.
C8_Idempotent ==
    (/\ env[1] = env[2]
     /\ Succeeded(1) /\ Succeeded(2))
        => /\ fs = fs0[2]
           /\ FileAt(2) = File(ReportText(2))

C8_Witness ==
    /\ env[1] = env[2]
    /\ Succeeded(1) /\ Succeeded(2)
    /\ fs0[1][DestOf(1)] = File(OldData)
    /\ env[1]["TASK_ID"].set

\* C9: after a run that failed, the destination holds what it held when the
\* run was started, or a complete report; never an empty or partial one.
C9_NoPartialFile ==
    \A p \in Procs :
        (LastRun(p) /\ Failed(p) /\ report_path[p].set /\ DestOf(p) \in Paths) =>
            \/ FileAt(p) = fs0[p][DestOf(p)]
            \/ FileAt(p) = File(ReportText(p))

\* C10: REPORT_PATH set to the empty string is treated as REPORT_PATH not set:
\* the process exits with a non-zero status and the message "REPORT_PATH not
\* set", having read no other variable and opened no file, also when a
\* numeric variable is malformed.
C10_EmptyDestinationIsMissing ==
    \A p \in Procs :
        (env[p]["REPORT_PATH"].set /\ env[p]["REPORT_PATH"].val = <<>>) =>
            /\ pc[p] \in {"idle", "start", "exited"}
            /\ Exited(p) =>
                  /\ status[p] = ExitError
                  /\ message[p] = "REPORT_PATH not set"
                  /\ reads[p] = <<"REPORT_PATH">>
            /\ Started(p) => fs = fs0[p]

C10_Witness ==
    \E p \in Procs :
        /\ Exited(p)
        /\ env[p]["REPORT_PATH"].set /\ env[p]["REPORT_PATH"].val = <<>>
        /\ HasBadNumber(p)

====
